---- MODULE Spec2Model ----
(***************************************************************************)
(* A model of the crawl core of lgemc/adv-crawler:                         *)
(*   src/crawler/core/crawler.py    WebCrawler                             *)
(*   src/crawler/core/pipeline.py   CrawlerPipeline                        *)
(*   src/crawler/utils/url_utils.py URLUtils                               *)
(*   src/cmd/main.py                main                                   *)
(*                                                                         *)
(* WebCrawler hands its requests to a crawlee PlaywrightCrawler.  The      *)
(* crawler object is the environment of the code: it owns the request      *)
(* queue, navigates, calls _handle_request for each request, retries a     *)
(* request whose navigation or handler fails (max_request_retries), calls  *)
(* _handle_failed_request when the retries are used up, and stops taking   *)
(* requests after max_requests_per_crawl finished ones.  Handlers are      *)
(* coroutines: they interleave at their awaits and nowhere else.           *)
(***************************************************************************)
EXTENDS Integers, Sequences, FiniteSets, TLC

\* ---------------------------------------------------------------- bounds
\* The site has the home page "/" (page 0) and the pages /1 .. /NPages.
NPages == 2
\* Handlers the crawler runs at the same time.
MaxConcurrency == 2
\* Navigation errors and handler timeouts in one run.
MaxFaults == 3

\* ------------------------------------------------------------------ URLs
\* A URL string, by its parts.  path 0 is the empty path; with slash it is
\* "/".  ucase: scheme and host are written in upper case; pcase: so is the
\* path.  port 0: no port written.  ext: the extension the path ends in
\* ("" for none).  query: the URL has a query string; qcase: written in
\* upper case.
Url(scheme, host, port, path, slash, frag, ucase, pcase) ==
    [scheme |-> scheme, host |-> host, port |-> port, path |-> path,
     slash |-> slash, frag |-> frag, ucase |-> ucase, pcase |-> pcase,
     ext |-> "", query |-> FALSE, qcase |-> FALSE]

Page(k) == Url("http", "ex.com", 0, k, k = 0, FALSE, FALSE, FALSE)
Home == Page(0)
\* u with a fragment: "u#top".
Frag(u) == [u EXCEPT !.frag = TRUE]
\* The home page with the default port written out.
Home80 == [Home EXCEPT !.port = 80]
\* An off-domain page.
Ext == Url("http", "other.org", 0, 0, TRUE, FALSE, FALSE, FALSE)
\* "ex.com": no scheme, so urlparse finds no host either.
NoScheme == Url("", "", 0, 1, FALSE, FALSE, FALSE, FALSE)
\* "http://ex.com/1.pdf": a document, no page.
Pdf == [Page(1) EXCEPT !.ext = "pdf"]
\* "http://ex.com/1.css": the stylesheet of the site.
Css == [Page(1) EXCEPT !.ext = "css"]

\* URLUtils.normalize_url
normalize_url(u) ==
    LET defaultPort == \/ (u.port = 80 /\ u.scheme = "http")
                       \/ (u.port = 443 /\ u.scheme = "https")
    IN  [u EXCEPT !.ucase = FALSE,
                  !.pcase = FALSE,
                  !.qcase = FALSE,
                  !.port = IF defaultPort THEN 0 ELSE u.port,
                  !.slash = (u.path = 0),
                  !.frag = FALSE]

\* URLUtils.is_valid_url
is_valid_url(u) == u.scheme # "" /\ u.host # ""

\* URLUtils.is_crawlable: skip_extensions, of which the model has three.
skip_extensions == {"pdf", "zip", "png"}

\* URLUtils.is_crawlable
is_crawlable(u) == u.ext \notin skip_extensions

\* urlparse(url).netloc, lower-cased: host and port as written.
netloc(u) == <<u.host, u.port>>

\* URLUtils.is_same_domain; the hosts of the model hold no "www." and none
\* is a subdomain of another, so the comparison is the equality of netlocs.
is_same_domain(u, domain) == domain # <<"", 0>> /\ netloc(u) = domain

\* url.startswith(('http://', 'https://')); the test is case-sensitive.
is_http(u) == u.scheme \in {"http", "https"} /\ ~u.ucase /\ u.host # ""

\* The key by which the request queue tells requests apart: the URL in
\* lower case, without a trailing slash on its path and without fragment.
unique_key(u) ==
    [u EXCEPT !.ucase = FALSE, !.pcase = FALSE, !.qcase = FALSE,
              !.slash = FALSE, !.frag = FALSE]

\* The site: the anchors of the page served at u, in document order, as the
\* browser reports them (absolute, host in lower case, default port dropped).
InSite(u) ==
    u.host = "ex.com" /\ u.scheme = "http" /\ u.path \in 0..NPages /\ u.ext = ""

\* Page k links to the next page twice (the second time to an anchor in
\* it), to the pages after that, to the home page and to another site.
\* The page of the other site links to this site only: to its home page and
\* to a document of it.  A document has no anchors.
Anchors(u) ==
    IF u = Ext THEN <<Home, Pdf>>
    ELSE IF ~InSite(u) THEN <<>>
    ELSE LET k == u.path
             next == IF k < NPages THEN <<Page(k + 1), Frag(Page(k + 1))>>
                     ELSE <<>>
             rest == [i \in 1..(IF k + 1 < NPages THEN NPages - k - 1 ELSE 0)
                          |-> Page(k + 1 + i)]
         IN  next \o rest \o <<Home, Ext>>

\* The stylesheet, script and image references of the page served at u:
\* every page of the site loads the stylesheet and shows, as an image, what
\* its first anchor links to.
Assets(u) ==
    IF ~InSite(u) THEN <<>>
    ELSE <<Css, Anchors(u)[1]>>

\* The values of the command line explored.
Seeds == {Home, Home80, NoScheme, Ext}
DepthOptions == {0, 1}
PagesOptions == {1, 2}

Urls ==
    Seeds \cup {Page(k) : k \in 0..NPages}
          \cup {Frag(Page(k)) : k \in 1..NPages} \cup {Ext, Pdf, Css}

\* ----------------------------------------------------------------- state
VARIABLES
    start_url, max_depth, max_pages, follow_external,   \* config
    include_assets,                                     \* config
    status,        \* IDLE, RUNNING, COMPLETED, ABORTED
    raised,        \* an exception reached the caller of pipeline.run
    visited_urls, page_count,
    queue,         \* the request queue: pending URLs, oldest first
    known,         \* unique keys the request queue has ever accepted
    depth,         \* user_data['depth'] of each request
    retry_count,   \* retries of each request so far
    handled,       \* requests whose handler returned
    failed,        \* requests given to _handle_failed_request
    pc, idx,       \* each running handler: its await, its link index
    admissions,    \* history: times the queue accepted each URL
    attempts,      \* history: fetches started of each URL
    counted,       \* history: times each URL was added to page_count
    faults,        \* history: navigation errors and handler timeouts so far
    outcome,       \* history: the "Error processing" line logged for each URL
    saved,         \* history: pages writer.save_page was called for
    delayed,       \* history: handlers that awaited the delay in their last run
    report,        \* the page count logged by crawl when run returned
    url,           \* the argument of a call of URLUtils.normalize_url
    normalized     \* and what the call returned

vars == <<start_url, max_depth, max_pages, follow_external, status, raised,
          visited_urls, page_count, queue, known, depth, retry_count,
          handled, failed, pc, idx, admissions, attempts, outcome, faults,
          counted, include_assets, saved, delayed, report, url, normalized>>

config == <<start_url, max_depth, max_pages, follow_external, include_assets>>

\* The variables of the call of normalize_url; the crawler never makes it.
call == <<url, normalized>>

\* WebCrawler.__init__: base_domain
base_domain == netloc(start_url)

Running(u) == pc[u] # "none"
InFlight == {u \in Urls : Running(u)}

\* WebCrawler.__init__ and _setup_crawler
NewCrawler ==
    /\ status = "IDLE"
    /\ raised = FALSE
    /\ visited_urls = {}
    /\ page_count = 0
    /\ queue = <<>>
    /\ known = {}
    /\ depth = [u \in Urls |-> 0]
    /\ retry_count = [u \in Urls |-> 0]
    /\ handled = {}
    /\ failed = {}
    /\ pc = [u \in Urls |-> "none"]
    /\ idx = [u \in Urls |-> 0]
    /\ admissions = [u \in Urls |-> 0]
    /\ attempts = [u \in Urls |-> 0]
    /\ outcome = [u \in Urls |-> "none"]
    /\ faults = 0
    /\ counted = [u \in Urls |-> 0]
    /\ saved = {}
    /\ delayed = {}
    /\ report = <<>>

\* --include-assets is explored on the default command line otherwise.
Init ==
    /\ start_url \in Seeds
    /\ max_depth \in DepthOptions
    /\ max_pages \in PagesOptions
    /\ follow_external \in BOOLEAN
    /\ include_assets \in (IF follow_external THEN {FALSE} ELSE BOOLEAN)
    /\ NewCrawler
    /\ url = start_url
    /\ normalized = <<>>

\* ------------------------------------------------------- the request queue
\* The crawler set up with one retry more.
max_request_retries_plus_one == 2 + 1

\* WebCrawler._setup_crawler: max_request_retries=2
max_request_retries == 2

\* The request queue takes a request unless it has taken one with the same
\* unique key before (pending, running or done).
QueueAccepts(u) == unique_key(u) \notin known

\* add_requests([{'url': u, 'user_data': {'depth': d}}])
AddRequest(u, d) ==
    IF QueueAccepts(u)
    THEN /\ queue' = Append(queue, u)
         /\ known' = known \cup {unique_key(u)}
         /\ depth' = [depth EXCEPT ![u] = d]
         /\ admissions' = [admissions EXCEPT ![u] = @ + 1]
    ELSE UNCHANGED <<queue, known, depth, admissions>>

\* A crawler that puts a failing request back without counting its retries.
RetryForever(u) ==
    /\ queue' = Append(queue, u)
    /\ UNCHANGED <<retry_count, failed>>

\* The crawler's answer to a navigation or handler error of request u: the
\* request goes back to the queue while it has retries left, and to
\* _handle_failed_request (which logs it) after that.
RetryOrFail(u) ==
    IF retry_count[u] < max_request_retries
    THEN /\ retry_count' = [retry_count EXCEPT ![u] = @ + 1]
         /\ queue' = Append(queue, u)
         /\ failed' = failed
    ELSE /\ failed' = failed \cup {u}
         /\ UNCHANGED <<retry_count, queue>>

\* The request limit counting the dropped requests with the finished ones.
RequestLimitCountsFailed ==
    Cardinality(handled) + Cardinality(failed) >= max_pages

\* max_requests_per_crawl=self.max_pages: no request is taken from the queue
\* once that many have finished.
RequestLimitReached == Cardinality(handled) >= max_pages

\* ---------------------------------------------------------------- crawl
\* WebCrawler.crawl: the seed goes to the queue at depth 0 and the crawler
\* runs.  No code of the repository looks at the seed before this call.
Crawl ==
    /\ status = "IDLE"
    /\ AddRequest(start_url, 0)
    /\ status' = "RUNNING"
    /\ UNCHANGED <<config, call, saved, delayed, report, faults, counted, raised, visited_urls, page_count, retry_count,
                   handled, failed, pc, idx, attempts, outcome>>

\* The same call when the crawler refuses a URL that is no URL: the error
\* leaves crawl, _run_async and run (which logs and re-raises it).
CrawlRejected ==
    /\ status = "IDLE"
    /\ ~is_valid_url(start_url)
    /\ status' = "ABORTED"
    /\ raised' = TRUE
    /\ UNCHANGED <<config, call, saved, delayed, report, faults, counted, visited_urls, page_count, queue, known, depth,
                   retry_count, handled, failed, pc, idx, admissions,
                   attempts, outcome>>

\* The crawler takes the oldest pending request and starts navigating.
Fetch ==
    /\ status = "RUNNING"
    /\ queue # <<>>
    /\ Cardinality(InFlight) < MaxConcurrency
    /\ ~RequestLimitReached
    /\ LET u == Head(queue)
       IN  /\ queue' = Tail(queue)
           /\ pc' = [pc EXCEPT ![u] = "nav"]
           /\ attempts' = [attempts EXCEPT ![u] = @ + 1]
    /\ UNCHANGED <<config, call, saved, delayed, report, faults, counted, status, raised, visited_urls, page_count, known,
                   depth, retry_count, handled, failed, idx, admissions,
                   outcome>>

\* The navigation fails (network error, timeout): the handler is not
\* called.  The browser opens no URL without a scheme; of the other URLs,
\* MaxFaults navigations or handlers fail in a run.
NavFail(u) ==
    /\ status = "RUNNING"
    /\ pc[u] = "nav"
    /\ ~is_valid_url(u) \/ faults < MaxFaults
    /\ faults' = IF is_valid_url(u) THEN faults + 1 ELSE faults
    /\ pc' = [pc EXCEPT ![u] = "none"]
    /\ RetryOrFail(u)
    /\ UNCHANGED <<config, call, saved, delayed, report, counted, status, raised, visited_urls, page_count,
                   known, depth, handled, idx, admissions, attempts, outcome>>

\* ------------------------------------------------------- _handle_request
\* The page limit tested with > for >=.
at_page_limit_off_by_one == page_count > max_pages

\* The handler without its page-limit test.
at_page_limit_unchecked == FALSE

\* if self.page_count >= self.max_pages
at_page_limit == page_count >= max_pages

\* The handler returns: the request is finished.
Finish(u) ==
    /\ pc' = [pc EXCEPT ![u] = "none"]
    /\ idx' = [idx EXCEPT ![u] = 0]
    /\ handled' = handled \cup {u}

\* The handler counts the page and leaves visited_urls alone.
VisitUnmarked(u) ==
    /\ visited_urls' = visited_urls
    /\ page_count' = page_count + 1
    /\ counted' = [counted EXCEPT ![u] = @ + 1]

\* self.visited_urls.add(url); self.page_count += 1
Visit(u) ==
    /\ visited_urls' = visited_urls \cup {u}
    /\ page_count' = page_count + 1
    /\ counted' = [counted EXCEPT ![u] = @ + 1]

\* The handler marking the URL as visited before it returns at the limit.
MarkAndReturnAtLimit(u) ==
    /\ Finish(u)
    /\ visited_urls' = visited_urls \cup {u}
    /\ UNCHANGED <<page_count, counted>>

\* Lines 68-69: the handler logs "Reached maximum page limit" and returns.
ReturnAtLimit(u) ==
    /\ Finish(u)
    /\ UNCHANGED <<visited_urls, page_count, counted>>

\* Lines 62-75, up to the first await: the page limit, visited_urls,
\* page_count.
HandleRequest(u) ==
    /\ status = "RUNNING"
    /\ pc[u] = "nav"
    /\ is_valid_url(u)
    /\ delayed' = delayed \ {u}
    /\ IF at_page_limit
       THEN ReturnAtLimit(u)
       ELSE /\ Visit(u)
            /\ pc' = [pc EXCEPT ![u] = "page"]
            /\ UNCHANGED <<handled, idx>>
    /\ UNCHANGED <<config, call, saved, report, faults, status, raised, queue, known, depth, retry_count,
                   failed, admissions, attempts, outcome>>

\* The handler without its except clause: the error leaves the handler and
\* ends the run.
ErrorEscapes(u, what) ==
    /\ outcome' = [outcome EXCEPT ![u] = what]
    /\ Finish(u)
    /\ status' = "ABORTED"
    /\ raised' = TRUE

\* except Exception as e: self.logger.error(f"Error processing ..."); the
\* handler returns normally.  what: the call that raised.
OnProcessingError(u, what) ==
    /\ outcome' = [outcome EXCEPT ![u] = what]
    /\ Finish(u)
    /\ UNCHANGED <<status, raised>>

\* One of the page calls of lines 80-94 (title, content, text, links,
\* assets) raises.
ExtractFail(u) ==
    /\ status = "RUNNING"
    /\ pc[u] = "page"
    /\ OnProcessingError(u, "extract_error")
    /\ UNCHANGED <<config, call, saved, delayed, report, faults, counted, visited_urls, page_count, queue, known, depth,
                   retry_count, failed, admissions, attempts>>

\* Lines 97-104: the page calls returned and writer.save_page raises.
SaveFail(u) ==
    /\ status = "RUNNING"
    /\ pc[u] = "page"
    /\ saved' = saved \cup {u}
    /\ OnProcessingError(u, "save_error")
    /\ UNCHANGED <<config, call, delayed, report, faults, counted, visited_urls, page_count, queue, known, depth,
                   retry_count, failed, admissions, attempts>>

\* ------------------------------------------------------- _enqueue_links
\* _extract_links: the anchors of the page, in document order.
extract_links(u) == Anchors(u)

\* Lines 92-94: assets = [] unless include_assets, then _extract_assets.
extract_assets(u) == IF include_assets THEN Assets(u) ELSE <<>>

\* The handler passing the assets to _enqueue_links with the links.
links_and_assets(u) == extract_links(u) \o extract_assets(u)

\* Line 110: what the handler passes to _enqueue_links: links.
enqueued_links(u) == extract_links(u)

\* A crawler to which no link is external.
is_external_never(v) == FALSE

\* The depth limit tested with > for >=.
depth_limit_off_by_one(d) == d > max_depth

\* if current_depth >= self.max_depth: return
depth_limit_reached(d) == d >= max_depth

\* if url in self.visited_urls: continue
already_visited(v) == v \in visited_urls

\* _extract_links: 'is_external'
is_external(v) == ~is_same_domain(v, base_domain)

\* The three tests of the loop body that skip a link.
Skipped(v) ==
    \/ already_visited(v)
    \/ (is_external(v) /\ ~follow_external)
    \/ ~is_http(v)

\* The loop runs without an await over the links it skips: the index of the
\* first link from i on that it passes to add_requests, 0 when there is none.
NextLink(u, i) ==
    LET pass == {j \in i..Len(enqueued_links(u)) :
                     ~Skipped(enqueued_links(u)[j])}
    IN  IF pass = {} THEN 0 ELSE CHOOSE j \in pass : \A k \in pass : j <= k

\* Lines 80-110: the page calls return, save_page is called with the links
\* and the assets and returns, the delay (asyncio.sleep) passes, and
\* _enqueue_links begins; it returns at once on a page at the depth limit.
ProcessPage(u) ==
    /\ status = "RUNNING"
    /\ pc[u] = "page"
    /\ saved' = saved \cup {u}
    /\ delayed' = delayed \cup {u}
    /\ IF depth_limit_reached(depth[u])
       THEN Finish(u)
       ELSE /\ pc' = [pc EXCEPT ![u] = "enqueue"]
            /\ idx' = [idx EXCEPT ![u] = 1]
            /\ handled' = handled
    /\ UNCHANGED <<config, call, report, faults, counted, status, raised, visited_urls, page_count, queue,
                   known, depth, retry_count, failed, admissions, attempts,
                   outcome>>

\* The loop up to its next await: the next link that passes the tests goes
\* to add_requests; the handler returns when there is none, or none after
\* it.
EnqueueLink(u) ==
    /\ status = "RUNNING"
    /\ pc[u] = "enqueue"
    /\ LET j == NextLink(u, idx[u])
       IN  IF j = 0
           THEN /\ Finish(u)
                /\ UNCHANGED <<queue, known, depth, admissions>>
           ELSE /\ AddRequest(enqueued_links(u)[j], depth[u] + 1)
                /\ IF j = Len(enqueued_links(u))
                   THEN Finish(u)
                   ELSE /\ idx' = [idx EXCEPT ![u] = j + 1]
                        /\ UNCHANGED <<pc, handled>>
    /\ UNCHANGED <<config, call, saved, delayed, report, faults, counted, status, raised, visited_urls, page_count,
                   retry_count, failed, attempts, outcome>>

\* request_handler_timeout_secs=30: the crawler cancels a handler that is
\* still at an await after 30 s.  The cancellation is no Exception, so the
\* except clause of the handler does not take it, and the crawler treats
\* the request as it treats any handler error.
HandlerTimeout(u) ==
    /\ status = "RUNNING"
    /\ pc[u] \in {"page", "enqueue"}
    /\ pc' = [pc EXCEPT ![u] = "none"]
    /\ idx' = [idx EXCEPT ![u] = 0]
    /\ RetryOrFail(u)
    /\ faults < MaxFaults
    /\ faults' = faults + 1
    /\ UNCHANGED <<config, call, saved, delayed, report, counted, status, raised, visited_urls, page_count, known,
                   depth, handled, admissions, attempts, outcome>>

\* ------------------------------------------------------------ the ends
\* crawler.run() returns: nothing is running, and the queue is empty or the
\* request limit is reached.  crawl logs "Crawling completed. Visited
\* {page_count} pages." (line 215).
Complete ==
    /\ status = "RUNNING"
    /\ InFlight = {}
    /\ queue = <<>> \/ RequestLimitReached
    /\ status' = "COMPLETED"
    /\ report' = <<page_count>>
    /\ UNCHANGED <<config, call, saved, delayed, faults, counted, raised, visited_urls, page_count, queue, known,
                   depth, retry_count, handled, failed, pc, idx, admissions,
                   attempts, outcome>>

\* main: except KeyboardInterrupt: logs "Crawling interrupted by user" and
\* exits with status 0.  The process ends, and with it the event loop, its
\* handlers and the request queue; the counters are kept here as they stood.
\* Line 215 of crawl is not reached: no page count is logged.
Interrupt ==
    /\ status = "RUNNING"
    /\ status' = "ABORTED"
    /\ pc' = [u \in Urls |-> "none"]
    /\ idx' = [u \in Urls |-> 0]
    /\ queue' = <<>>
    /\ UNCHANGED <<config, call, saved, delayed, report, faults, counted, raised, visited_urls, page_count, known,
                   depth, retry_count, handled, failed, admissions, attempts,
                   outcome>>

Next ==
    \/ Crawl
    \/ CrawlRejected
    \/ Fetch
    \/ \E u \in Urls : NavFail(u)
    \/ \E u \in Urls : HandleRequest(u)
    \/ \E u \in Urls : ExtractFail(u)
    \/ \E u \in Urls : SaveFail(u)
    \/ \E u \in Urls : ProcessPage(u)
    \/ \E u \in Urls : EnqueueLink(u)
    \/ \E u \in Urls : HandlerTimeout(u)
    \/ Complete
    \/ Interrupt

Spec == Init /\ [][Next]_vars

\* The event loop runs every task that is ready: the crawler's own loop
\* (taking requests, returning from run) and each handler from one await to
\* the next.  Errors, timeouts and the interrupt come from outside.
Progress ==
    \/ Crawl
    \/ Fetch
    \/ \E u \in Urls : HandleRequest(u)
    \/ \E u \in Urls : ~is_valid_url(u) /\ NavFail(u)
    \/ \E u \in Urls : ProcessPage(u)
    \/ \E u \in Urls : EnqueueLink(u)
    \/ Complete

\* The runs of the default command line (no --follow-external, no
\* --include-assets), fairly scheduled.
FairInit == Init /\ ~follow_external /\ ~include_assets

FairSpec == FairInit /\ [][Next]_vars /\ WF_vars(Progress)

\* -------------------------------------------------- normalize_url, called
\* The URL strings given to normalize_url: http and https, with and without
\* the default ports, a path, a trailing slash, a fragment, a query string,
\* each part in lower or upper case.
UrlStrings ==
    {u \in [scheme : {"http", "https"}, host : {"ex.com"}, port : {0, 80, 443},
            path : {0, 1}, slash : BOOLEAN, frag : BOOLEAN, ucase : BOOLEAN,
            pcase : BOOLEAN, ext : {""}, query : BOOLEAN, qcase : BOOLEAN] :
        /\ u.pcase => u.path # 0
        /\ u.qcase => u.query}

\* normalized = URLUtils.normalize_url(url)
NormalizeUrl ==
    /\ normalized = <<>>
    /\ normalized' = <<normalize_url(url)>>
    /\ UNCHANGED <<config, url, status, raised, visited_urls, page_count,
                   queue, known, depth, retry_count, handled, failed, pc, idx,
                   admissions, attempts, outcome, faults, counted, saved,
                   delayed, report>>

NormInit ==
    /\ url \in UrlStrings
    /\ normalized = <<>>
    /\ start_url = Home
    /\ max_depth = 0
    /\ max_pages = 1
    /\ follow_external = FALSE
    /\ include_assets = FALSE
    /\ NewCrawler

NormNext == NormalizeUrl

\* The calls of normalize_url, one for each URL string.
NormSpec == NormInit /\ [][NormNext]_vars

\* ================================================================ claims
Terminal == status \in {"COMPLETED", "ABORTED"}
Pending == {queue[i] : i \in 1..Len(queue)}
Admitted == {u \in Urls : admissions[u] > 0}

\* C1: in every reachable state, with any number of handlers running at the
\* same time, page_count <= max_pages.
C1_PageCountCeiling == page_count <= max_pages

\* C1 witness: the counter stands at the ceiling while one handler is past
\* the check and another request waits to enter its handler.
C1_Witness ==
    /\ page_count = max_pages
    /\ \E u, v \in Urls : u # v /\ pc[u] = "nav" /\ pc[v] \in {"page", "enqueue"}

\* C2 (as claimed): of the URLs that normalize_url maps to one canonical
\* string, the request queue accepts at most one, and that one once.
C2_OneAdmissionPerCanonicalUrl ==
    \A u1, u2 \in Urls :
        /\ admissions[u1] <= 1
        /\ (u1 # u2 /\ normalize_url(u1) = normalize_url(u2))
               => ~(admissions[u1] > 0 /\ admissions[u2] > 0)

\* C3: every request the queue accepted has depth <= max_depth: the seed has
\* depth 0 and a link of a page of depth d has depth d + 1 with d < max_depth.
C3_DepthBound ==
    /\ \A u \in Admitted : depth[u] <= max_depth
    /\ \A u \in Pending \cup InFlight \cup visited_urls : depth[u] <= max_depth
    /\ status # "IDLE" /\ admissions[start_url] > 0 => depth[start_url] = 0

\* C3 witness: a page at the depth limit, with links the queue has not seen,
\* ran its handler to the end.
C3_Witness ==
    \E u \in handled :
        /\ max_depth > 0
        /\ depth[u] = max_depth
        /\ u \in visited_urls
        /\ outcome[u] = "none"
        /\ \E i \in 1..Len(Anchors(u)) : unique_key(Anchors(u)[i]) \notin known

\* C4 (as claimed): every URL pending in the queue is in visited_urls.
C4_PendingAreSeen == \A u \in Pending : u \in visited_urls

\* C4 (amended): a URL enters visited_urls when its handler starts, not when
\* the queue accepts it: a URL whose handler is past the page-limit check is
\* in visited_urls, and every URL in visited_urls has been accepted by the
\* queue and fetched at least once.
C4_SeenAtFetchTime ==
    /\ \A u \in Urls : pc[u] \in {"page", "enqueue"} => u \in visited_urls
    /\ \A u \in visited_urls : admissions[u] >= 1 /\ attempts[u] >= 1
    /\ \A u \in Urls : attempts[u] = 0 => u \notin visited_urls

\* C4 witness: an accepted URL waits in the queue, never fetched and not in
\* visited_urls, while the page that linked to it is.
C4_Witness ==
    \E u \in Pending :
        /\ u \notin visited_urls
        /\ attempts[u] = 0
        /\ depth[u] = 1
        /\ start_url \in visited_urls

\* C5 (as claimed): while page_count >= max_pages the queue accepts no link.
C5_NoAdmissionAtCapacity ==
    [][page_count >= max_pages => admissions' = admissions]_vars

\* C5 (amended): the page limit is consulted only when a handler starts.  A
\* handler that starts with page_count >= max_pages returns at once and the
\* queue accepts nothing from it; links are accepted only from a handler
\* that passed the check, and such a handler goes on to enqueue the links of
\* its page also when page_count has reached max_pages.
C5_CapacityCheckedAtHandlerStart ==
    /\ [][\A u \in Urls :
             (pc[u] = "nav" /\ pc'[u] # "nav" /\ u \notin failed'
                 /\ retry_count' = retry_count /\ status' = "RUNNING"
                 /\ page_count >= max_pages)
             => (pc'[u] = "none" /\ u \in handled'
                 /\ admissions' = admissions /\ queue' = queue
                 /\ page_count' = page_count)]_vars
    /\ [][admissions' # admissions =>
             \/ status = "IDLE"
             \/ \E u \in Urls : pc[u] = "enqueue" /\ counted[u] > 0]_vars

\* C5 witness: the seed's handler brought page_count to max_pages and the
\* queue has since accepted a link of its page.
C5_Witness ==
    /\ page_count >= max_pages
    /\ pc[start_url] = "enqueue"
    /\ \E u \in Pending : depth[u] = 1 /\ attempts[u] = 0

\* C6: a failure at one URL is not fatal.  When a request runs out of
\* retries, or extraction or save_page raises, the failure is recorded, the
\* run stays RUNNING with its pending requests and nothing is raised to the
\* caller; a run that raised to its caller has no such failure behind it;
\* and the crawler goes on: with a failure recorded, requests pending and no
\* handler running, it takes the next request unless the run ends.
C6_FailureNotFatal ==
    /\ [][(failed' # failed \/ outcome' # outcome)
             => (status' = "RUNNING" /\ raised' = FALSE
                 /\ Pending \subseteq Pending')]_vars
    /\ [](raised => (failed = {} /\ \A u \in Urls : outcome[u] = "none"))
    /\ (/\ status = "RUNNING"
        /\ failed # {} \/ \E u \in Urls : outcome[u] # "none"
        /\ queue # <<>>
        /\ InFlight = {})
           ~> (InFlight # {} \/ Terminal)

\* C6 witness: the run completed, nothing raised, with one request dropped
\* after its retries and another page's processing error logged.
C6_Witness ==
    /\ status = "COMPLETED"
    /\ ~raised
    /\ \E u, v \in Urls : u # v /\ u \in failed /\ outcome[v] # "none"

\* C7: a request is fetched at most 3 times (2 retries); a request that
\* failed 3 times is dropped and not fetched again in the run.
C7_RetriesBounded ==
    /\ [](\A u \in Urls :
             /\ attempts[u] <= 3
             /\ retry_count[u] <= 2
             /\ u \in failed => /\ attempts[u] = 3
                                /\ u \notin Pending \cup InFlight \cup handled)
    /\ [][\A u \in failed : u \in failed' /\ attempts'[u] = attempts[u]]_vars

\* C7 witness: a request was dropped after three fetches and the run went
\* on to fetch another.
C7_Witness ==
    \E u, v \in Urls : u \in failed /\ attempts[u] = 3 /\ v # u /\ pc[v] = "nav"

\* C8 (as claimed): a page whose save_page raised has its error logged, is
\* counted exactly once in page_count, and its request is finished: not
\* pending, not running, not retried.
C8_SaveFailureCountsOnce ==
    \A u \in Urls :
        outcome[u] = "save_error"
            => /\ counted[u] = 1
               /\ u \in handled
               /\ u \notin Pending \cup InFlight \cup failed

\* C9: under fair scheduling a run that is RUNNING reaches COMPLETED or
\* ABORTED; it is COMPLETED only with nothing running and the page limit
\* reached or the queue empty; and from then on nothing is fetched, nothing
\* is accepted by the queue and page_count stays.
C9_Terminates ==
    /\ (status = "RUNNING") ~> Terminal
    /\ [](status = "COMPLETED"
             => InFlight = {} /\ (page_count >= max_pages \/ queue = <<>>))
    /\ [][Terminal => UNCHANGED <<status, page_count, visited_urls, attempts,
                                  admissions>>]_vars

\* C9 witness: the run is COMPLETED at the page limit with requests left in
\* the queue.
C9_Witness ==
    status = "COMPLETED" /\ page_count = max_pages /\ queue # <<>>

\* C10 (as claimed): with a seed that has no scheme or no host the run goes
\* from IDLE to ABORTED: the seed is not accepted by the queue, nothing is
\* fetched, page_count stays 0 and the error reaches the caller.
C10_InvalidSeedAborts ==
    ~is_valid_url(start_url)
        => /\ status \in {"IDLE", "ABORTED"}
           /\ admissions[start_url] = 0
           /\ \A u \in Urls : attempts[u] = 0
           /\ page_count = 0
           /\ status = "ABORTED" => raised

\* C11 (as claimed): an interrupt of a RUNNING crawl moves it to ABORTED
\* without another fetch and without an error reaching the caller, and the
\* number of pages visited so far is still reported.
C11_InterruptIsCleanStop ==
    [][(status = "RUNNING" /\ status' = "ABORTED")
          => /\ attempts' = attempts
             /\ raised' = FALSE
             /\ page_count' = page_count
             /\ report' = <<page_count>>]_vars

\* The URLs fetched (navigated to) so far.
Fetched == {u \in Urls : attempts[u] > 0}
\* No navigation failed, no handler was cancelled, no page call raised.
AllSucceeded == faults = 0 /\ \A u \in Urls : outcome[u] = "none" /\ u \notin failed
Min(a, b) == IF a <= b THEN a ELSE b
Range(s) == {s[i] : i \in 1..Len(s)}

\* C12 (as claimed, at the size of the model): with max_depth = 1 on the
\* site whose home page links to NPages distinct pages of the site, all
\* fetches succeeding, the crawl ends with exactly min(max_pages, 1 + NPages)
\* visited pages, all of depth <= 1, and no more than that many URLs are
\* ever fetched.
C12_EndToEndPageBudget ==
    (start_url = Home /\ max_depth = 1 /\ ~follow_external /\ AllSucceeded)
        => /\ Cardinality(Fetched) <= Min(max_pages, 1 + NPages)
           /\ \A u \in visited_urls : depth[u] <= 1
           /\ status = "COMPLETED"
                 => /\ page_count = Min(max_pages, 1 + NPages)
                    /\ Cardinality(visited_urls) = Min(max_pages, 1 + NPages)

\* The page of u has links, and to the crawler started at u all are external.
OnlyOffDomainLinks(u) ==
    /\ extract_links(u) # <<>>
    /\ \A v \in Range(extract_links(u)) : ~is_same_domain(v, netloc(u))

\* C13: without --follow-external, on a seed page with only off-domain
\* links, the queue accepts the seed and nothing else, nothing but the seed
\* is visited, the queue is empty once the seed's handler has returned, and
\* a run without faults counts exactly one page.
C13_OffDomainNotAdmitted ==
    (~follow_external /\ OnlyOffDomainLinks(start_url))
        => /\ Admitted \subseteq {start_url}
           /\ visited_urls \subseteq {start_url}
           /\ start_url \in handled
                 => /\ queue = <<>>
                    /\ visited_urls = {start_url}
                    /\ faults = 0 => page_count = 1

\* C13 witness: the crawl of the other site's page, whose links all lead
\* off its domain, completed after the handler went through its links.
C13_Witness ==
    /\ status = "COMPLETED"
    /\ ~follow_external
    /\ start_url = Ext
    /\ max_depth = 1
    /\ OnlyOffDomainLinks(start_url)
    /\ start_url \in handled \cap delayed
    /\ outcome[start_url] = "none"
    /\ page_count = 1
    /\ queue = <<>>

\* C14 (as claimed): no discovered link that fails is_valid_url or
\* is_crawlable is accepted by the queue or fetched.
C14_OnlyValidCrawlableAdmitted ==
    \A u \in Urls \ {start_url} :
        (~is_valid_url(u) \/ ~is_crawlable(u))
            => admissions[u] = 0 /\ attempts[u] = 0

\* C15 (as claimed): every handler that counted its page and returned has
\* awaited the delay in that run, whether or not extraction or save_page
\* raised.
C15_DelayOnEveryPath ==
    \A u \in handled : counted[u] > 0 => u \in delayed

\* The asset URLs given to writer.save_page so far.
AssetsToWriter == UNION {Range(extract_assets(u)) : u \in saved}
\* The URLs met as anchors of a page whose handler has run.
AnchorsFound == UNION {Range(extract_links(u)) : u \in visited_urls}

\* C16: with include_assets, the asset URLs go to save_page and not to the
\* queue: an asset URL that the queue accepted is an anchor of a visited
\* page, and the stylesheet, which no anchor links to, is never accepted and
\* never fetched.
C16_AssetsNotEnqueued ==
    /\ \A a \in AssetsToWriter : admissions[a] > 0 => a \in AnchorsFound
    /\ \A u \in Admitted \ {start_url} : u \in AnchorsFound
    /\ admissions[Css] = 0 /\ attempts[Css] = 0

\* C16 witness: with include_assets the crawl completed; the writer was given
\* the stylesheet and an image that is also the target of an anchor; the
\* queue accepted the second and not the first.
C16_Witness ==
    /\ include_assets
    /\ status = "COMPLETED"
    /\ Css \in AssetsToWriter
    /\ \E a \in AssetsToWriter : a # Css /\ admissions[a] = 1 /\ a \in visited_urls
    /\ admissions[Css] = 0

\* The canonical forms of the URLs the queue accepted or the handler marked.
SeenCanonical == {normalize_url(w) : w \in visited_urls \cup Admitted}

\* C17 (as claimed): a URL whose canonical form is already seen is not
\* accepted: no step adds it to the queue or to the keys the queue has seen.
C17_AdmitSeenIsNoOp ==
    [][\A v \in Urls :
          normalize_url(v) \in SeenCanonical
              => /\ admissions'[v] = admissions[v]
                 /\ unique_key(v) \in known' => unique_key(v) \in known]_vars

\* u and v differ at most in the case of scheme and host, the presence of
\* the default port, a trailing slash and a fragment.
DefaultPort(u) == IF u.scheme = "http" THEN 80 ELSE 443
SameUpToForm(u, v) ==
    /\ u.scheme = v.scheme /\ u.host = v.host /\ u.path = v.path
    /\ u.pcase = v.pcase /\ u.ext = v.ext
    /\ u.query = v.query /\ u.qcase = v.qcase
    /\ u.port = v.port \/ {u.port, v.port} = {0, DefaultPort(u)}

\* C18 (as claimed): normalize_url gives one string for the URLs that differ
\* only in the case of scheme and host, the default port, a trailing slash
\* or a fragment, and keeps the query string and the case of the path.
C18_NormalizeCanonical ==
    normalized # <<>>
        => /\ \A v \in UrlStrings :
                 SameUpToForm(url, v) => normalize_url(v) = normalized[1]
           /\ normalized[1].query = url.query
           /\ normalized[1].qcase = url.qcase
           /\ normalized[1].pcase = url.pcase

\* C19 (as claimed): page_count is the number of URLs in visited_urls.
C19_CountMatchesVisited == page_count = Cardinality(visited_urls)

\* C20: a handler that starts with page_count >= max_pages returns at once:
\* visited_urls, page_count and the queue stay, save_page is not called and
\* the queue accepts no link.
C20_HandlerAtLimitIsNoOp ==
    [][\A u \in Urls :
          (/\ pc[u] = "nav" /\ is_valid_url(u) /\ page_count >= max_pages
           /\ pc'[u] # "nav" /\ retry_count'[u] = retry_count[u]
           /\ u \notin failed' /\ status' = "RUNNING")
              => /\ UNCHANGED <<visited_urls, page_count, counted, queue, known,
                                admissions, saved, outcome>>
                 /\ pc'[u] = "none"
                 /\ u \in handled']_vars

\* C20 witness: at the page limit a request was fetched and its handler
\* returned: the URL is not visited, not counted and not saved, a link of it
\* is still unknown to the queue.
C20_Witness ==
    \E u \in handled :
        /\ page_count >= max_pages
        /\ attempts[u] > 0
        /\ counted[u] = 0
        /\ u \notin visited_urls \cup saved
        /\ \E v \in Range(extract_links(u)) : unique_key(v) \notin known

====
